---- MODULE Spec2Model ----
(***************************************************************************)
(* The container log delivery pipeline: Daemon.ContainerLogs (the pump and *)
(* its background worker), httputils.WriteLogStream (the multiplexing      *)
(* writer), the log watcher they read from and the container whose logger  *)
(* they borrow.  Strings are sequences of one-character strings.           *)
(***************************************************************************)
EXTENDS Integers, Sequences, FiniteSets, TLC

\* ------------------------------------------------------------------ bounds
\* Number of log records the source may yield in one session.
MaxMsgs == 2
\* Capacity of the caller's config.Messages channel.
ChanCap == 1
\* Number of loggers the container may create (cached loggers).
MaxLoggers == 2

\* ------------------------------------------------------------------ values
NoErr == ""
NilLogger == 0
\* The logger StartLogger opens for one read; no container logger has its id.
AdHoc == MaxLoggers + 1
LoggerIds == 1..AdHoc

Digits == {"0", "1", "2", "3", "4", "5", "6", "7", "8", "9"}
DigitVal(c) ==
  CASE c = "0" -> 0 [] c = "1" -> 1 [] c = "2" -> 2 [] c = "3" -> 3
    [] c = "4" -> 4 [] c = "5" -> 5 [] c = "6" -> 6 [] c = "7" -> 7
    [] c = "8" -> 8 [] c = "9" -> 9 [] OTHER -> 0
DigitChr(n) == <<"0", "1", "2", "3", "4", "5", "6", "7", "8", "9">>[(n % 10) + 1]

RECURSIVE DigitsValue(_)
DigitsValue(s) ==
  IF s = <<>> THEN 0 ELSE DigitsValue(SubSeq(s, 1, Len(s) - 1)) * 10 + DigitVal(s[Len(s)])

AllDigits(s) == s # <<>> /\ \A i \in 1..Len(s) : s[i] \in Digits

\* strconv.Atoi: an optional sign followed by decimal digits, else an error.
Atoi(s) ==
  LET signed == s # <<>> /\ s[1] \in {"+", "-"}
      body == IF signed THEN Tail(s) ELSE s
  IN IF ~AllDigits(body) THEN [n |-> 0, err |-> "syntax"]
     ELSE [n |-> IF signed /\ s[1] = "-" THEN 0 - DigitsValue(body) ELSE DigitsValue(body),
           err |-> NoErr]

\* The tail strings a request may carry: "all", "2", "-3", "x", "".
TailStrings == {<<"a", "l", "l">>, <<"2">>, <<"-", "3">>, <<"x">>, <<>>}

\* tailLines, err := strconv.Atoi(config.Tail); if err != nil { tailLines = -1 }
TailLines(tail) == IF Atoi(tail).err # NoErr THEN -1 ELSE Atoi(tail).n

\* The since strings a request may carry: absent, a unix timestamp, garbage.
SinceStrings == {<<>>, <<"7">>, <<"x">>}

\* timetypes.ParseTimestamps(value, 0): seconds (a decimal number), else an error.
ParseTimestamps(value) ==
  IF AllDigits(value) THEN [s |-> DigitsValue(value), err |-> NoErr]
  ELSE [s |-> 0, err |-> "BadSince"]

\* ------------------------------------------------------------- log records
Sources == {"stdout", "stderr"}

\* A mapping without keys (a nil or empty LogAttributes).
NoAttrs == [k \in {} |-> <<>>]

\* The attributes of the i-th record: a mapping from key to value.
AttrsOf(i) == IF i % 2 = 0 THEN [k \in {<<"k">>} |-> <<"v">>] ELSE NoAttrs

\* The i-th record the source yields, on stream src.
Record(i, src) ==
  [Source |-> src, Line |-> <<"l", DigitChr(i)>>, Timestamp |-> i,
   Attrs |-> AttrsOf(i), Err |-> NoErr]

\* Mutant of the error message: the error is set on a message that carries data.
ErrMessageWithData(err) ==
  [Source |-> "stdout", Line |-> <<"l", "1">>, Timestamp |-> 1, Attrs |-> NoAttrs, Err |-> err]

\* &backend.LogMessage{Err: err}: every other field has its zero value.
ErrMessage(err) ==
  [Source |-> "", Line |-> <<>>, Timestamp |-> 0, Attrs |-> NoAttrs, Err |-> err]

\* ---------------------------------------------------------------- variables
VARIABLES
  config,          \* the request: ShowStdout, ShowStderr, Messages == nil
  ctxDone,         \* the shared context has been cancelled
  running,         \* container.IsRunning()
  LogDriver,       \* container.LogDriver (NilLogger: nil)
  loggerCloses,    \* per logger, the number of Close calls it has received
  loggersMade,     \* the number of loggers the container has created
  callPc,          \* ContainerLogs: "init", "reading" (ReadLogs returned), "returned",
                   \* "panicked" (the deferred close panicked: nothing is returned)
  rerr,            \* ContainerLogs' named result rerr (NoErr: nil)
  panicked,        \* a goroutine of the session has panicked
  cLog,            \* the logger getLogger returned (NilLogger: none acquired)
  cachedAtAcquire, \* cLog was container.LogDriver when getLogger returned it
  pumpCloses,      \* the number of times the pump called cLog.Close()
  readConfig,      \* the logger.ReadConfig handed to ReadLogs
  configFollow,    \* config.Follow as the call read it, while ReadLogs is being called
  logsMsg,         \* logs.Msg: the records the source has yielded and nobody received
  logsMsgClosed,   \* logs.Msg has been closed by the source
  logsErr,         \* logs.Err: buffered errors
  logsCloses,      \* the number of logs.Close() calls
  produced,        \* every record the source has yielded, in order
  srcErrored,      \* the source has reported a read failure
  workerPc,        \* the goroutine: "none", "select", "send", "sendErr", "deferMsgs", "deferLogs", "done"
  workerMsg,       \* the message the worker is about to send
  workerExit,      \* why the loop ended: "none", "err", "ctx", "ctxSend", "eof"
  recvAfterErr,    \* the worker received from logs.Msg after it received from logs.Err
  messages,        \* config.Messages: the buffered messages
  closeCount,      \* the number of close(config.Messages) calls that closed it
  sent,            \* every message sent on config.Messages, in order
  sentAfterClose,  \* a send on config.Messages happened after its close
  writerPc,        \* WriteLogStream: "none", "loop", "done"
  sink,            \* the writes made on the three lanes, in order
  flushes,         \* the number of wf.Flush() calls
  sinkCloses,      \* the number of wf.Close() calls
  writerRecvs,     \* the number of messages the writer received
  writerExit,      \* why the writer returned: "none", "ctx", "closed", "err"
  \* the pure functions, applied to inputs of their own outside any session
  pureOp,          \* what is computed: "none", "encode", "decode", "toGRPC", "fromGRPC"
  purePc,          \* "idle", "input", "encoded", "decoded", "converted", "back"
  attrs,           \* stringAttrs' argument a
  detailsString,   \* ParseLogDetails' argument details (stringAttrs' result)
  detailsMap,      \* ParseLogDetails' results: the map (or nil) and the error
  availability,    \* a docker types.VolumeAvailability
  swarmAvailability, \* a swarmapi.VolumeSpec_VolumeAvailability
  dockerAvailability \* volumeAvailabilityFromGRPC's result

pureVars == <<pureOp, purePc, attrs, detailsString, detailsMap, availability, swarmAvailability,
              dockerAvailability>>
\* What no step of a session changes: the request, and the pure functions' own
\* inputs and results.
reqVars == <<config, pureVars>>
envVars == <<ctxDone, running, LogDriver, loggerCloses, loggersMade>>
callVars == <<callPc, rerr, panicked, cLog, cachedAtAcquire, pumpCloses, readConfig,
              configFollow>>
srcVars == <<logsMsg, logsMsgClosed, logsErr, logsCloses, produced, srcErrored>>
workerVars == <<workerPc, workerMsg, workerExit, recvAfterErr>>
chanVars == <<messages, closeCount, sent, sentAfterClose>>
writerVars == <<writerPc, sink, flushes, sinkCloses, writerRecvs, writerExit>>
vars == <<reqVars, envVars, callVars, srcVars, workerVars, chanVars, writerVars>>

NoReadConfig == [Since |-> 0, Tail |-> 0, Follow |-> FALSE]
NoMsg == ErrMessage(NoErr)

\* The session before ContainerLogs is called.
SessionInit ==
  /\ config \in [ShowStdout : BOOLEAN, ShowStderr : BOOLEAN, MessagesNil : BOOLEAN]
  /\ ctxDone = FALSE
  \* a running container has its logger cached; a stopped one may still hold it
  /\ \E st \in {<<TRUE, 1>>, <<FALSE, 1>>, <<FALSE, NilLogger>>} :
       running = st[1] /\ LogDriver = st[2]
  /\ loggerCloses = [l \in LoggerIds |-> 0]
  /\ loggersMade = IF LogDriver = NilLogger THEN 0 ELSE 1
  /\ callPc = "init"
  /\ rerr = NoErr
  /\ panicked = FALSE
  /\ cLog = NilLogger
  /\ cachedAtAcquire = FALSE
  /\ pumpCloses = 0
  /\ readConfig = NoReadConfig
  /\ configFollow = FALSE
  /\ logsMsg = <<>>
  /\ logsMsgClosed = FALSE
  /\ logsErr = <<>>
  /\ logsCloses = 0
  /\ produced = <<>>
  /\ srcErrored = FALSE
  /\ workerPc = "none"
  /\ workerMsg = NoMsg
  /\ workerExit = "none"
  /\ recvAfterErr = FALSE
  /\ messages = <<>>
  /\ closeCount = 0
  /\ sent = <<>>
  /\ sentAfterClose = FALSE
  /\ writerPc = "none"
  /\ sink = <<>>
  /\ flushes = 0
  /\ sinkCloses = 0
  /\ writerRecvs = 0
  /\ writerExit = "none"

\* ParseLogDetails' results before the call.
NoDetailsMap == [m |-> NoAttrs, isNil |-> TRUE, err |-> NoErr]

\* No pure function is being computed.
PureIdle ==
  /\ pureOp = "none"
  /\ purePc = "idle"
  /\ attrs = NoAttrs
  /\ detailsString = <<>>
  /\ detailsMap = NoDetailsMap
  /\ availability = ""
  /\ swarmAvailability = "ACTIVE"
  /\ dockerAvailability = ""

Init == SessionInit /\ PureIdle


\* --------------------------------------------------------- config.Messages
\* Mutant of close(config.Messages): the close is forgotten.
CloseMessagesForgotten == UNCHANGED <<closeCount, panicked>>

\* close(config.Messages): closing a nil channel panics, and so does closing a
\* closed one; closeCount counts the calls made on a non-nil channel.
CloseMessages ==
  /\ closeCount' = IF config.MessagesNil THEN closeCount ELSE closeCount + 1
  /\ panicked' = (panicked \/ config.MessagesNil \/ closeCount > 0)

\* config.Messages <- m, once the send can proceed.
SendMessage(m) ==
  /\ messages' = Append(messages, m)
  /\ sent' = Append(sent, m)
  /\ sentAfterClose' = (sentAfterClose \/ closeCount > 0)

\* A send on config.Messages can proceed: the buffer has room (a nil channel
\* never lets a send proceed).
CanSend == ~config.MessagesNil /\ Len(messages) < ChanCap

\* ----------------------------------------------------------- ContainerLogs
CallInputs ==
  [exists : BOOLEAN, removal : BOOLEAN, dead : BOOLEAN, logType : {"json-file", "none"},
   startFails : BOOLEAN, readable : BOOLEAN, follow : BOOLEAN,
   tail : TailStrings, since : SinceStrings]

\* The checks made before a logger is acquired.
Validate(in) ==
  IF config.MessagesNil THEN "NilChannel"
  ELSE IF ~(config.ShowStdout \/ config.ShowStderr) THEN "NoStream"
  ELSE IF ~in.exists THEN "NotFound"
  ELSE IF in.removal \/ in.dead THEN "DeadOrRemoval"
  ELSE IF in.logType = "none" THEN "ErrReadLogsNotSupported"
  ELSE NoErr

\* container.StartLogger(): a logger opened for this read, or an error.
StartLogger(in) ==
  IF in.startFails THEN [log |-> NilLogger, err |-> "StartLoggerErr"]
  ELSE [log |-> AdHoc, err |-> NoErr]

getLogger(in) ==
  IF LogDriver # NilLogger /\ running THEN [log |-> LogDriver, err |-> NoErr]
  ELSE StartLogger(in)

\* The checks made once the logger is acquired: the LogReader assertion and
\* the parse of config.Since.
ReaderErr(in) ==
  IF ~in.readable THEN "ErrReadLogsNotSupported"
  ELSE IF in.since # <<>> /\ ParseTimestamps(in.since).err # NoErr
       THEN ParseTimestamps(in.since).err
  ELSE NoErr

\* Mutant of the read configuration: follow is config.Follow, whatever the
\* container's state.
MakeReadConfigFollowAsRequested(in) ==
  [Since |-> IF in.since # <<>> THEN ParseTimestamps(in.since).s ELSE 0,
   Tail |-> TailLines(in.tail),
   Follow |-> in.follow]

\* readConfig := logger.ReadConfig{Since: since, Tail: tailLines, Follow: follow}
MakeReadConfig(in) ==
  [Since |-> IF in.since # <<>> THEN ParseTimestamps(in.since).s ELSE 0,
   Tail |-> TailLines(in.tail),
   Follow |-> (in.follow /\ running)]

\* Mutants of the deferred close: without the test of rerr, and never closing.
DeferClosesAlways(err) == TRUE
DeferClosesNever(err) == FALSE

\* defer func() { if rerr != nil { close(config.Messages) } }()
DeferClosesOnReturn(err) == err # NoErr

\* ContainerLogs up to and including logReader.ReadLogs(readConfig), with
\* every synchronous error return (and the deferred close it triggers).
ContainerLogs(in) ==
  /\ callPc = "init"
  /\ LET pre == Validate(in)
         got == IF pre = NoErr THEN getLogger(in) ELSE [log |-> NilLogger, err |-> NoErr]
         err == IF pre # NoErr THEN pre
                ELSE IF got.err # NoErr THEN got.err
                ELSE ReaderErr(in)
     IN /\ cLog' = got.log
        /\ cachedAtAcquire' = (got.log # NilLogger /\ got.log = LogDriver)
        /\ IF err = NoErr
           THEN /\ callPc' = "reading"
                /\ readConfig' = MakeReadConfig(in)
                /\ configFollow' = in.follow
                /\ UNCHANGED <<rerr, panicked, closeCount>>
           ELSE /\ callPc' = IF DeferClosesOnReturn(err) /\ config.MessagesNil
                           THEN "panicked" ELSE "returned"
                /\ rerr' = err
                /\ IF DeferClosesOnReturn(err)
                   THEN CloseMessages
                   ELSE UNCHANGED <<panicked, closeCount>>
                /\ UNCHANGED <<readConfig, configFollow>>
  /\ UNCHANGED <<reqVars, envVars, pumpCloses, logsMsg, logsMsgClosed, logsErr, logsCloses,
                 produced, srcErrored, workerVars, messages, sent, sentAfterClose, writerVars>>

\* go func() { ... }(); return nil
ContainerLogsSpawn ==
  /\ callPc = "reading"
  /\ callPc' = "returned"
  /\ rerr' = NoErr
  /\ workerPc' = "select"
  /\ readConfig' = NoReadConfig
  /\ configFollow' = FALSE
  /\ IF DeferClosesOnReturn(NoErr)
     THEN CloseMessages
     ELSE UNCHANGED <<panicked, closeCount>>
  /\ UNCHANGED <<reqVars, envVars, cLog, cachedAtAcquire, pumpCloses, srcVars, workerMsg,
                 workerExit, recvAfterErr, messages, sent, sentAfterClose, writerVars>>

\* ------------------------------------------------------------- the worker
\* case err := <-logs.Err: the worker goes on to send the error message.
WorkerRecvErr ==
  /\ workerPc = "select"
  /\ logsErr # <<>>
  /\ logsErr' = Tail(logsErr)
  /\ workerMsg' = ErrMessage(Head(logsErr))
  /\ workerPc' = "sendErr"
  /\ workerExit' = "err"
  /\ UNCHANGED <<reqVars, envVars, callVars, logsMsg, logsMsgClosed, logsCloses,
                 produced, srcErrored, recvAfterErr, chanVars, writerVars>>

\* Mutant of the error send: the return after it is missing.
WorkerSendErrNoReturn ==
  /\ workerPc = "sendErr"
  /\ CanSend
  /\ SendMessage(workerMsg)
  /\ workerMsg' = NoMsg
  /\ workerPc' = "select"
  /\ UNCHANGED <<reqVars, envVars, callVars, srcVars, workerExit, recvAfterErr, closeCount,
                 writerVars>>

\* config.Messages <- &backend.LogMessage{Err: err}; return
WorkerSendErr ==
  /\ workerPc = "sendErr"
  /\ CanSend
  /\ SendMessage(workerMsg)
  /\ workerMsg' = NoMsg
  /\ workerPc' = "deferMsgs"
  /\ UNCHANGED <<reqVars, envVars, callVars, srcVars, workerExit, recvAfterErr, closeCount,
                 writerVars>>

\* Mutant of the cancellation case: the return is missing.
WorkerCtxDoneContinues ==
  /\ workerPc = "select"
  /\ ctxDone
  /\ workerExit' = "ctx"
  /\ UNCHANGED <<reqVars, envVars, callVars, srcVars, workerPc, workerMsg, recvAfterErr,
                 chanVars, writerVars>>

\* case <-ctx.Done(): return
WorkerCtxDone ==
  /\ workerPc = "select"
  /\ ctxDone
  /\ workerPc' = "deferMsgs"
  /\ workerExit' = "ctx"
  /\ UNCHANGED <<reqVars, envVars, callVars, srcVars, workerMsg, recvAfterErr, chanVars,
                 writerVars>>

\* case msg, ok := <-logs.Msg: with a record, m := msg.AsLogMessage()
WorkerRecvMsg ==
  /\ workerPc = "select"
  /\ logsMsg # <<>>
  /\ logsMsg' = Tail(logsMsg)
  /\ workerMsg' = Head(logsMsg)
  /\ workerPc' = "send"
  /\ recvAfterErr' = (recvAfterErr \/ workerExit = "err")
  /\ UNCHANGED <<reqVars, envVars, callVars, logsMsgClosed, logsErr, logsCloses,
                 produced, srcErrored, workerExit, chanVars, writerVars>>

\* case msg, ok := <-logs.Msg: if !ok { return }
WorkerRecvClosed ==
  /\ workerPc = "select"
  /\ logsMsg = <<>>
  /\ logsMsgClosed
  /\ workerPc' = "deferMsgs"
  /\ workerExit' = "eof"
  /\ recvAfterErr' = (recvAfterErr \/ workerExit = "err")
  /\ UNCHANGED <<reqVars, envVars, callVars, srcVars, workerMsg, chanVars, writerVars>>

\* The inner select: case <-ctx.Done(): return
WorkerSendCtxDone ==
  /\ workerPc = "send"
  /\ ctxDone
  /\ workerMsg' = NoMsg
  /\ workerPc' = "deferMsgs"
  /\ workerExit' = "ctxSend"
  /\ UNCHANGED <<reqVars, envVars, callVars, srcVars, recvAfterErr, chanVars, writerVars>>

\* The stream of a record was requested.
Requested(src) ==
  (src = "stdout" /\ config.ShowStdout) \/ (src = "stderr" /\ config.ShowStderr)

\* Mutant of the normal send: a record of a stream not requested is dropped.
WorkerSendMsgFiltered ==
  /\ workerPc = "send"
  /\ CanSend
  /\ IF Requested(workerMsg.Source)
     THEN SendMessage(workerMsg)
     ELSE UNCHANGED <<messages, sent, sentAfterClose>>
  /\ workerMsg' = NoMsg
  /\ workerPc' = "select"
  /\ UNCHANGED <<reqVars, envVars, callVars, srcVars, workerExit, recvAfterErr, closeCount,
                 writerVars>>

\* The inner select: case config.Messages <- m:
WorkerSendMsg ==
  /\ workerPc = "send"
  /\ CanSend
  /\ SendMessage(workerMsg)
  /\ workerMsg' = NoMsg
  /\ workerPc' = "select"
  /\ UNCHANGED <<reqVars, envVars, callVars, srcVars, workerExit, recvAfterErr, closeCount,
                 writerVars>>

\* The deferred functions run last registered first: defer close(config.Messages)
WorkerDeferCloseMessages ==
  /\ workerPc = "deferMsgs"
  /\ CloseMessages
  /\ workerPc' = "deferLogs"
  /\ UNCHANGED <<reqVars, envVars, callPc, rerr, cLog, cachedAtAcquire, pumpCloses, readConfig,
                 configFollow, srcVars, workerMsg, workerExit, recvAfterErr, messages, sent,
                 sentAfterClose, writerVars>>

\* if cLog != container.LogDriver { cLog.Close() }
PumpClosesLogger == cLog # LogDriver

\* ... then the first defer: logs.Close() and the close of a logger that is not
\* the container's.
WorkerDeferCloseLogs ==
  /\ workerPc = "deferLogs"
  /\ logsCloses' = logsCloses + 1
  /\ IF PumpClosesLogger
     THEN /\ loggerCloses' = [loggerCloses EXCEPT ![cLog] = @ + 1]
          /\ pumpCloses' = pumpCloses + 1
     ELSE UNCHANGED <<loggerCloses, pumpCloses>>
  /\ workerPc' = "done"
  /\ UNCHANGED <<reqVars, ctxDone, running, LogDriver, loggersMade, callPc, rerr, panicked,
                 cLog, cachedAtAcquire, readConfig, configFollow, logsMsg, logsMsgClosed,
                 logsErr,
                 produced, srcErrored, workerMsg, workerExit, recvAfterErr, chanVars,
                 writerVars>>

Worker ==
  \/ WorkerRecvErr
  \/ WorkerSendErr
  \/ WorkerCtxDone
  \/ WorkerRecvMsg
  \/ WorkerRecvClosed
  \/ WorkerSendCtxDone
  \/ WorkerSendMsg
  \/ WorkerDeferCloseMessages
  \/ WorkerDeferCloseLogs


\* ------------------------------------------------------------ the log source
\* The live iterator feeds the worker: what the source does between ReadLogs
\* and the start of the goroutine is seen by the worker as done just after it.
LogsOpen == workerPc # "none"

\* The source yields its next record on logs.Msg.
SourceYield(src) ==
  /\ LogsOpen
  /\ ~logsMsgClosed
  /\ ~srcErrored
  /\ logsCloses = 0
  /\ Len(produced) < MaxMsgs
  /\ LET m == Record(Len(produced) + 1, src)
     IN /\ logsMsg' = Append(logsMsg, m)
        /\ produced' = Append(produced, m)
  /\ UNCHANGED <<reqVars, envVars, callVars, logsMsgClosed, logsErr, logsCloses,
                 srcErrored, workerVars, chanVars, writerVars>>

\* The source closes logs.Msg: no more records will come.
SourceEnd ==
  /\ LogsOpen
  /\ ~logsMsgClosed
  /\ logsMsgClosed' = TRUE
  /\ UNCHANGED <<reqVars, envVars, callVars, logsMsg, logsErr, logsCloses,
                 produced, srcErrored, workerVars, chanVars, writerVars>>

\* The source reports a read failure on logs.Err: at most one, and no record
\* after it.
SourceFail ==
  /\ LogsOpen
  /\ ~logsMsgClosed
  /\ ~srcErrored
  /\ logsCloses = 0
  /\ logsErr' = Append(logsErr, "readfail")
  /\ srcErrored' = TRUE
  /\ UNCHANGED <<reqVars, envVars, callVars, logsMsg, logsMsgClosed, logsCloses,
                 produced, workerVars, chanVars, writerVars>>

Source == (\E src \in Sources : SourceYield(src)) \/ SourceEnd \/ SourceFail

\* ------------------------------------------------- the context, the container
\* The caller cancels the shared context.
Cancel ==
  /\ ~ctxDone
  /\ ctxDone' = TRUE
  /\ UNCHANGED <<reqVars, running, LogDriver, loggerCloses, loggersMade, callVars, srcVars,
                 workerVars, chanVars, writerVars>>

\* The container stops running.
ContainerStop ==
  /\ running
  /\ running' = FALSE
  /\ UNCHANGED <<reqVars, ctxDone, LogDriver, loggerCloses, loggersMade, callVars, srcVars,
                 workerVars, chanVars, writerVars>>

\* The stopped container closes its logger and forgets it.
ContainerReset ==
  /\ ~running
  /\ LogDriver # NilLogger
  /\ loggerCloses' = [loggerCloses EXCEPT ![LogDriver] = @ + 1]
  /\ LogDriver' = NilLogger
  /\ UNCHANGED <<reqVars, ctxDone, running, loggersMade, callVars, srcVars, workerVars,
                 chanVars, writerVars>>

\* The container (re)starts with a new logger, which it caches.
ContainerStart ==
  /\ ~running
  /\ LogDriver = NilLogger
  /\ loggersMade < MaxLoggers
  /\ loggersMade' = loggersMade + 1
  /\ LogDriver' = loggersMade + 1
  /\ running' = TRUE
  /\ UNCHANGED <<reqVars, ctxDone, loggerCloses, callVars, srcVars, workerVars, chanVars,
                 writerVars>>

\* The container's changes commute with every step of the session but the two
\* that read it: ContainerLogs, which finds it in one of the states of Init,
\* and the worker's deferred comparison, before which they are all taken.
Container ==
  /\ workerPc = "deferLogs"
  /\ (ContainerStop \/ ContainerReset \/ ContainerStart)


\* -------------------------------------------------------- the attribute token
\* The bytes the model's strings are made of, in ascending byte order.
Bytes == <<"%", "+", ",", "-", "0", "1", "2", "3", "4", "5", "6", "7", "8", "9", "=",
           "T", "a", "b", "k", "l", "v", "x">>
ByteOf(c) == CHOOSE i \in 1..Len(Bytes) : Bytes[i] = c

\* Go's s < t on strings: lexicographic by byte, a proper prefix first.
RECURSIVE StrLess(_, _)
StrLess(s, t) ==
  IF t = <<>> THEN FALSE
  ELSE IF s = <<>> THEN TRUE
  ELSE IF s[1] # t[1] THEN ByteOf(s[1]) < ByteOf(t[1])
  ELSE StrLess(Tail(s), Tail(t))

\* strings.Split(s, "=")[0]: the part of s before its first "=".
RECURSIVE BeforeEquals(_)
BeforeEquals(s) ==
  IF s = <<>> \/ s[1] = "=" THEN <<>> ELSE <<s[1]>> \o BeforeEquals(Tail(s))

\* byKey.Less on two elements
Less(si, sj) == StrLess(BeforeEquals(si), BeforeEquals(sj))

\* strings.Join(ss, ",")
RECURSIVE Join(_)
Join(ss) ==
  IF ss = <<>> THEN <<>>
  ELSE IF Len(ss) = 1 THEN ss[1]
  ELSE ss[1] \o <<",">> \o Join(Tail(ss))

\* ss after the loop over the map: k+"="+v for every pair, as a set.
PairStrings(a) == {k \o <<"=">> \o a[k] : k \in DOMAIN a}

\* What sort.Sort(ss) may leave: the map is iterated in any order and the sort
\* is not stable, so any arrangement that Less does not contradict.
SortedArrangements(S) ==
  {ss \in [1..Cardinality(S) -> S] :
     /\ \A i, j \in 1..Cardinality(S) : i # j => ss[i] # ss[j]
     /\ \A i, j \in 1..Cardinality(S) : i < j => ~Less(ss[j], ss[i])}

\* stringAttrs(a): the tokens it may return.
stringAttrs(a) == {Join(ss) : ss \in SortedArrangements(PairStrings(a))}

\* ------------------------------------------------------------ ParseLogDetails
\* strings.Split(s, ","): the segments between the commas; one (empty) segment
\* for the empty string.
RECURSIVE Split(_)
Split(s) ==
  IF \A i \in 1..Len(s) : s[i] # "," THEN <<s>>
  ELSE LET i == CHOOSE j \in 1..Len(s) : s[j] = "," /\ \A h \in 1..(j - 1) : s[h] # ","
       IN <<SubSeq(s, 1, i - 1)>> \o Split(SubSeq(s, i + 1, Len(s)))

\* Mutant of SplitN: the pair is cut at its last "=".
SplitNAtLast(pair) ==
  IF \A i \in 1..Len(pair) : pair[i] # "=" THEN <<pair>>
  ELSE LET i == CHOOSE j \in 1..Len(pair) :
                  pair[j] = "=" /\ \A h \in (j + 1)..Len(pair) : pair[h] # "="
       IN <<SubSeq(pair, 1, i - 1), SubSeq(pair, i + 1, Len(pair))>>

\* strings.SplitN(pair, "=", 2): the pair itself when it holds no "=", else the
\* part before its first "=" and the part after it.
SplitN(pair) ==
  IF \A i \in 1..Len(pair) : pair[i] # "=" THEN <<pair>>
  ELSE LET i == CHOOSE j \in 1..Len(pair) : pair[j] = "=" /\ \A h \in 1..(j - 1) : pair[h] # "="
       IN <<SubSeq(pair, 1, i - 1), SubSeq(pair, i + 1, Len(pair))>>

HexDigits == <<"0", "1", "2", "3", "4", "5", "6", "7", "8", "9", "A", "B", "C", "D", "E", "F">>
LowerHexDigits == <<"0", "1", "2", "3", "4", "5", "6", "7", "8", "9", "a", "b", "c", "d", "e", "f">>
ishex(c) == \E i \in 1..16 : HexDigits[i] = c \/ LowerHexDigits[i] = c
unhex(c) == (CHOOSE i \in 1..16 : HexDigits[i] = c \/ LowerHexDigits[i] = c) - 1

\* The character of a byte value: the ASCII characters the model's strings are
\* made of, and a name of its own for any other byte.
ByteChr(n) ==
  CASE n = 32 -> " " [] n = 37 -> "%" [] n = 43 -> "+" [] n = 44 -> ","
    [] n = 49 -> "1" [] n = 51 -> "3" [] n = 61 -> "=" [] n = 68 -> "D"
    [] OTHER -> "\\x" \o ToString(n)

\* The first pass of url.QueryUnescape: every "%" is followed by two hex digits.
RECURSIVE EscapesValid(_)
EscapesValid(s) ==
  IF s = <<>> THEN TRUE
  ELSE IF s[1] = "%"
       THEN Len(s) >= 3 /\ ishex(s[2]) /\ ishex(s[3]) /\ EscapesValid(SubSeq(s, 4, Len(s)))
  ELSE EscapesValid(Tail(s))

\* Its second pass: "%XX" becomes the byte XX and "+" a space.
RECURSIVE Unescaped(_)
Unescaped(s) ==
  IF s = <<>> THEN <<>>
  ELSE IF s[1] = "%"
       THEN <<ByteChr(16 * unhex(s[2]) + unhex(s[3]))>> \o Unescaped(SubSeq(s, 4, Len(s)))
  ELSE IF s[1] = "+" THEN <<" ">> \o Unescaped(Tail(s))
  ELSE <<s[1]>> \o Unescaped(Tail(s))

\* url.QueryUnescape(s)
QueryUnescape(s) ==
  IF EscapesValid(s) THEN [s |-> Unescaped(s), err |-> NoErr]
  ELSE [s |-> <<>>, err |-> "EscapeError"]

\* detailsMap[k] = v
MapSet(m, k, v) == [x \in DOMAIN m \cup {k} |-> IF x = k THEN v ELSE m[x]]

\* The loop over the pairs, from the i-th on, with the map built so far.
RECURSIVE ParsePairs(_, _, _)
ParsePairs(pairs, i, m) ==
  IF i > Len(pairs) THEN [m |-> m, isNil |-> FALSE, err |-> NoErr]
  ELSE LET p == SplitN(pairs[i])
       IN IF Len(p) # 2
          THEN [m |-> NoAttrs, isNil |-> TRUE, err |-> "invalid details format"]
          ELSE LET k == QueryUnescape(p[1])
                   v == QueryUnescape(p[2])
               IN IF k.err # NoErr THEN [m |-> NoAttrs, isNil |-> TRUE, err |-> k.err]
                  ELSE IF v.err # NoErr THEN [m |-> NoAttrs, isNil |-> TRUE, err |-> v.err]
                  ELSE ParsePairs(pairs, i + 1, MapSet(m, k.s, v.s))

ParseLogDetails(s) == ParsePairs(Split(s), 1, NoAttrs)

\* ------------------------------------------------------- volume availability
\* types.VolumeAvailability is a string; its zero value is the empty string.
VolumeAvailabilityActive == "active"
VolumeAvailabilityPause == "pause"
VolumeAvailabilityDrain == "drain"

\* swarmapi.VolumeSpec_VolumeAvailability, by the names of its values; the
\* zero value is the active one.
SwarmActive == "ACTIVE"
SwarmPause == "PAUSE"
SwarmDrain == "DRAIN"

\* The switch of VolumeSpecToGRPC: a value that matches no case leaves
\* swarmSpec.Availability at its zero value.
VolumeSpecToGRPC(a) ==
  CASE a = VolumeAvailabilityActive -> SwarmActive
    [] a = VolumeAvailabilityPause -> SwarmPause
    [] a = VolumeAvailabilityDrain -> SwarmDrain
    [] OTHER -> SwarmActive

\* Mutant of volumeAvailabilityFromGRPC: the pause case is missing.
volumeAvailabilityFromGRPCNoPause(a) ==
  CASE a = SwarmActive -> VolumeAvailabilityActive
    [] OTHER -> VolumeAvailabilityDrain

volumeAvailabilityFromGRPC(a) ==
  CASE a = SwarmActive -> VolumeAvailabilityActive
    [] a = SwarmPause -> VolumeAvailabilityPause
    [] OTHER -> VolumeAvailabilityDrain

\* ----------------------------------------------------------- WriteLogStream
\* config.Details, config.Timestamps and the mux argument are fixed for a
\* session and read by no branch of the loop: they only shape the bytes of a
\* write.  The model records each write as the lane and the message written,
\* and renders its bytes for any value of the three with the operators below.

\* msg.Timestamp.Format(jsonlog.RFC3339NanoFixed): a fixed-width rendering.
TimeFormat(t) == <<"T", DigitChr(t)>>

\* Mutant of logLine: the timestamp is put first, then the details before it.
LogLineDetailsOutermost(details, timestamps, msg, token) ==
  LET withTime == IF timestamps THEN TimeFormat(msg.Timestamp) \o <<" ">> \o msg.Line
                  ELSE msg.Line
  IN IF details THEN token \o <<" ">> \o withTime ELSE withTime

\* logLine for a normal message, given the attribute token.
LogLine(details, timestamps, msg, token) ==
  LET withDetails == IF details THEN token \o <<" ">> \o msg.Line ELSE msg.Line
  IN IF timestamps
     THEN TimeFormat(msg.Timestamp) \o <<" ">> \o withDetails
     ELSE withDetails

\* fmt.Fprintf(sysErrStream, "Error grabbing logs: %v\n", msg.Err)
ErrorLine(err) == <<"Error grabbing logs: ", err, "\n">>

\* A Write on one of the three streams outStream, errStream, sysErrStream.
LaneWrite(stream, msg) == [Stream |-> stream, Msg |-> msg]

\* The bytes a write may carry.
WriteBytes(details, timestamps, write) ==
  IF write.Msg.Err # NoErr THEN {ErrorLine(write.Msg.Err)}
  ELSE {LogLine(details, timestamps, write.Msg, token) :
          token \in stringAttrs(write.Msg.Attrs)}

\* What a write of bytes p puts on the sink: with mux the lane is a stdcopy
\* writer, which sends a frame (the stream's tag, the length, the bytes);
\* without mux the three lanes are the sink itself and the bytes go out bare.
Wire(mux, stream, p) ==
  IF mux THEN [Tag |-> stream, Size |-> Len(p), Data |-> p]
  ELSE [Tag |-> "none", Size |-> 0, Data |-> p]

\* Mutant of the lane selection: every message goes to outStream.
LaneWritesAllStdout(msg) ==
  IF (msg.Source = "stdout" /\ config.ShowStdout) \/ (msg.Source = "stderr" /\ config.ShowStderr)
  THEN <<LaneWrite("stdout", msg)>> ELSE <<>>

\* Mutant of the lane selection: the tests of ShowStdout and ShowStderr are
\* missing.
LaneWritesUnfiltered(msg) ==
  (IF msg.Source = "stdout" THEN <<LaneWrite("stdout", msg)>> ELSE <<>>)
  \o (IF msg.Source = "stderr" THEN <<LaneWrite("stderr", msg)>> ELSE <<>>)

\* The writes of one normal message, in order.
LaneWrites(msg) ==
  (IF msg.Source = "stdout" /\ config.ShowStdout THEN <<LaneWrite("stdout", msg)>> ELSE <<>>)
  \o (IF msg.Source = "stderr" /\ config.ShowStderr THEN <<LaneWrite("stderr", msg)>> ELSE <<>>)

\* wf := NewWriteFlusher(w); defer wf.Close(); wf.Flush(); the stream set-up.
WriterStart ==
  /\ writerPc = "none"
  /\ writerPc' = "loop"
  /\ flushes' = flushes + 1
  /\ UNCHANGED <<reqVars, envVars, callVars, srcVars, workerVars, chanVars, sink, sinkCloses,
                 writerRecvs, writerExit>>

\* Mutant of the cancellation case: the sink is left open.
WriterCtxDoneSinkLeftOpen ==
  /\ writerPc = "loop"
  /\ ctxDone
  /\ writerPc' = "done"
  /\ UNCHANGED <<reqVars, envVars, callVars, srcVars, workerVars, chanVars, sink, flushes,
                 sinkCloses, writerRecvs>>
  /\ writerExit' = "ctx"

\* case <-ctx.Done(): return (and the deferred wf.Close())
WriterCtxDone ==
  /\ writerPc = "loop"
  /\ ctxDone
  /\ writerPc' = "done"
  /\ sinkCloses' = sinkCloses + 1
  /\ UNCHANGED <<reqVars, envVars, callVars, srcVars, workerVars, chanVars, sink, flushes,
                 writerRecvs>>
  /\ writerExit' = "ctx"

\* case msg, ok := <-config.Messages: if !ok { return }
WriterRecvClosed ==
  /\ writerPc = "loop"
  /\ ~config.MessagesNil
  /\ messages = <<>>
  /\ closeCount > 0
  /\ writerPc' = "done"
  /\ sinkCloses' = sinkCloses + 1
  /\ UNCHANGED <<reqVars, envVars, callVars, srcVars, workerVars, chanVars, sink, flushes,
                 writerRecvs>>
  /\ writerExit' = "closed"

\* Mutant of the error case: the writer returns without writing the error line.
WriterRecvErrSilent ==
  /\ writerPc = "loop"
  /\ messages # <<>>
  /\ Head(messages).Err # NoErr
  /\ messages' = Tail(messages)
  /\ writerRecvs' = writerRecvs + 1
  /\ writerPc' = "done"
  /\ sinkCloses' = sinkCloses + 1
  /\ UNCHANGED <<reqVars, envVars, callVars, srcVars, workerVars, closeCount, sent,
                 sentAfterClose, flushes, sink>>
  /\ writerExit' = "err"

\* Mutant of the error case: the error line is written but the loop goes on.
WriterRecvErrContinues ==
  /\ writerPc = "loop"
  /\ messages # <<>>
  /\ Head(messages).Err # NoErr
  /\ messages' = Tail(messages)
  /\ writerRecvs' = writerRecvs + 1
  /\ sink' = Append(sink, LaneWrite("systemerr", Head(messages)))
  /\ UNCHANGED <<reqVars, envVars, callVars, srcVars, workerVars, closeCount, sent,
                 sentAfterClose, flushes, writerPc, sinkCloses>>
  /\ writerExit' = "err"

\* a message with msg.Err != nil: write the error line and return
WriterRecvErr ==
  /\ writerPc = "loop"
  /\ messages # <<>>
  /\ Head(messages).Err # NoErr
  /\ messages' = Tail(messages)
  /\ writerRecvs' = writerRecvs + 1
  /\ sink' = Append(sink, LaneWrite("systemerr", Head(messages)))
  /\ writerPc' = "done"
  /\ sinkCloses' = sinkCloses + 1
  /\ UNCHANGED <<reqVars, envVars, callVars, srcVars, workerVars, closeCount, sent,
                 sentAfterClose, flushes>>
  /\ writerExit' = "err"

\* a normal message: the prefixes, then the write to the lane of its source
WriterRecvMsg ==
  /\ writerPc = "loop"
  /\ messages # <<>>
  /\ Head(messages).Err = NoErr
  /\ messages' = Tail(messages)
  /\ writerRecvs' = writerRecvs + 1
  /\ sink' = sink \o LaneWrites(Head(messages))
  /\ UNCHANGED <<reqVars, envVars, callVars, srcVars, workerVars, closeCount, sent,
                 sentAfterClose, writerPc, flushes, sinkCloses, writerExit>>

Writer == WriterStart \/ WriterCtxDone \/ WriterRecvClosed \/ WriterRecvErr \/ WriterRecvMsg

\* ------------------------------------------------------------ specification
Next ==
  \/ \E in \in CallInputs : ContainerLogs(in)
  \/ ContainerLogsSpawn
  \/ Worker
  \/ Source
  \/ Cancel
  \/ Container
  \/ Writer

Spec == Init /\ [][Next]_vars

\* The scheduler runs a goroutine that can take a step: the worker and the
\* writer are each weakly fair.
FairSpec == Spec /\ WF_vars(Worker) /\ WF_vars(Writer)


\* ------------------------------------------------ the pure functions, applied
\* The inputs the pure functions are applied to.
MaxAttrs == 2
MaxDetailsLen == 4

\* Keys and values of an attribute mapping: plain ones, and ones that hold the
\* separators and the escape characters.
AttrKeys == {<<>>, <<"k">>, <<"v">>, <<"k", "=">>, <<"k", ",">>, <<"k", "+">>, <<"=">>, <<"%">>}
AttrValues == {<<>>, <<"v">>, <<"=">>, <<",">>, <<"+">>}

\* The mappings of at most MaxAttrs pairs.
AttrMappings ==
  UNION {[K -> AttrValues] : K \in {S \in SUBSET AttrKeys : Cardinality(S) <= MaxAttrs}}

\* The characters of a details string.
DetailsChars == {"k", "=", ",", "%", "3", "D"}

\* Segments of a details string, to join into longer ones.
DetailsSegments ==
  {<<"k", "=", "v">>, <<"k", "=", "k">>, <<"v", "=">>, <<"k">>, <<"k", "%", "3", "D", "k", "=", "v">>,
   <<"k", "%", "3", "D", "k", "=", "k">>, <<"k", "=", "v", "=", "v">>, <<"k", "=", "%", "3">>,
   <<"k", "+", "=", "+">>}

\* The details strings ParseLogDetails is given: every string of at most
\* MaxDetailsLen characters, the joins of at most MaxAttrs segments, and
\* "a=1,b" and "a%3Db=1".
DetailsInputs ==
  UNION {[1..n -> DetailsChars] : n \in 0..MaxDetailsLen}
  \cup UNION {{Join(ss) : ss \in [1..n -> DetailsSegments]} : n \in 1..MaxAttrs}
  \cup {<<"a", "=", "1", ",", "b">>, <<"a", "%", "3", "D", "b", "=", "1">>}

\* The docker availabilities: the three values, the zero value, an unknown one.
DockerAvailabilities ==
  {VolumeAvailabilityActive, VolumeAvailabilityPause, VolumeAvailabilityDrain, "", "other"}

\* The swarm availabilities: the three values and an unknown one.
SwarmAvailabilities == {SwarmActive, SwarmPause, SwarmDrain, "UNKNOWN"}

sessionVars == <<config, envVars, callVars, srcVars, workerVars, chanVars, writerVars>>

\* One pure function is about to be applied to one input; no session runs.
PureInit ==
  /\ SessionInit
  /\ config = [ShowStdout |-> TRUE, ShowStderr |-> TRUE, MessagesNil |-> FALSE]
  /\ running /\ LogDriver # NilLogger
  /\ purePc = "input"
  /\ detailsMap = NoDetailsMap
  /\ dockerAvailability = ""
  /\ \/ /\ pureOp = "encode"
        /\ attrs \in AttrMappings
        /\ detailsString = <<>>
        /\ availability = "" /\ swarmAvailability = SwarmActive
     \/ /\ pureOp = "decode"
        /\ attrs = NoAttrs
        /\ detailsString \in DetailsInputs
        /\ availability = "" /\ swarmAvailability = SwarmActive
     \/ /\ pureOp = "toGRPC"
        /\ attrs = NoAttrs /\ detailsString = <<>>
        /\ availability \in DockerAvailabilities
        /\ swarmAvailability = SwarmActive
     \/ /\ pureOp = "fromGRPC"
        /\ attrs = NoAttrs /\ detailsString = <<>>
        /\ availability = ""
        /\ swarmAvailability \in SwarmAvailabilities

\* details := stringAttrs(attrs)
CallStringAttrs ==
  /\ pureOp = "encode" /\ purePc = "input"
  /\ detailsString' \in stringAttrs(attrs)
  /\ purePc' = "encoded"
  /\ UNCHANGED <<sessionVars, pureOp, attrs, detailsMap, availability, swarmAvailability,
                 dockerAvailability>>

\* detailsMap, err := ParseLogDetails(details)
CallParseLogDetails ==
  /\ \/ pureOp = "encode" /\ purePc = "encoded"
     \/ pureOp = "decode" /\ purePc = "input"
  /\ detailsMap' = ParseLogDetails(detailsString)
  /\ purePc' = "decoded"
  /\ UNCHANGED <<sessionVars, pureOp, attrs, detailsString, availability, swarmAvailability,
                 dockerAvailability>>

\* swarmSpec.Availability, as VolumeSpecToGRPC sets it from spec.Availability
CallVolumeSpecToGRPC ==
  /\ pureOp = "toGRPC" /\ purePc = "input"
  /\ swarmAvailability' = VolumeSpecToGRPC(availability)
  /\ purePc' = "converted"
  /\ UNCHANGED <<sessionVars, pureOp, attrs, detailsString, detailsMap, availability,
                 dockerAvailability>>

\* volumeAvailabilityFromGRPC(spec.Availability)
CallVolumeAvailabilityFromGRPC ==
  /\ \/ pureOp = "toGRPC" /\ purePc = "converted"
     \/ pureOp = "fromGRPC" /\ purePc = "input"
  /\ dockerAvailability' = volumeAvailabilityFromGRPC(swarmAvailability)
  /\ purePc' = "back"
  /\ UNCHANGED <<sessionVars, pureOp, attrs, detailsString, detailsMap, availability,
                 swarmAvailability>>

PureNext ==
  \/ CallStringAttrs
  \/ CallParseLogDetails
  \/ CallVolumeSpecToGRPC
  \/ CallVolumeAvailabilityFromGRPC

PureSpec == PureInit /\ [][PureNext]_vars


\* ====================================================================== claims

\* C1 (as claimed): once the shared context is cancelled, a started worker
\* eventually terminates with the output channel closed, whatever send it is
\* blocked in and whether or not anybody still receives.  Stated so that a
\* finite run decides it: after the cancellation, and with the writer gone (no
\* one will receive again), the worker has exited with the channel closed or
\* has a step it can take.
C1_CancelledWorkerNeverBlocked ==
  (ctxDone /\ workerPc # "none" /\ writerPc = "done") =>
    \/ workerPc = "done" /\ closeCount = 1
    \/ ENABLED Worker

\* The same as a liveness property, for FairSpec.
C1_CancelledWorkerTerminates ==
  (ctxDone /\ workerPc # "none") ~> (workerPc = "done" /\ closeCount = 1)

\* C2: config.Messages is closed at most once, and nothing is sent on it after
\* its close, on the error returns and in the worker alike.
C2_ClosedAtMostOnceNoSendAfter ==
  /\ closeCount <= 1
  /\ ~sentAfterClose
  /\ (closeCount = 1 /\ callPc = "returned" /\ rerr = NoErr)
       => workerPc \in {"deferLogs", "done"}

\* C2's case: a worker that sent a message after a cancellation and a source
\* failure, and has closed the channel.
C2_Witness ==
  /\ workerPc = "done"
  /\ closeCount = 1
  /\ sent # <<>>
  /\ ctxDone
  /\ srcErrored


\* The positions of sent that hold a message carrying an error.
ErrIndexes == {i \in 1..Len(sent) : sent[i].Err # NoErr}

\* C3 (as claimed): a read failure reported on logs.Err while the worker runs
\* is delivered: without cancellation, a worker that has exited after the
\* report has sent the error message as its last message.
C3_ReportedFailureDelivered ==
  (workerPc = "done" /\ srcErrored /\ ~ctxDone)
    => (sent # <<>> /\ sent[Len(sent)].Err # NoErr)

\* C3 (amended): the read failure is never returned by ContainerLogs; a message
\* carrying an error is sent only by a worker that received the failure, it
\* carries nothing but the error and nothing is sent after it; a worker that
\* left its loop through the error case has sent exactly one such message, and
\* closes the channel only after it.
C3_ReceivedFailureIsLastMessage ==
  /\ srcErrored => (rerr = NoErr /\ callPc = "returned")
  /\ \A i \in ErrIndexes :
       /\ i = Len(sent)
       /\ workerExit = "err"
       /\ sent[i].Err = "readfail"
       /\ sent[i].Source = "" /\ sent[i].Line = <<>>
       /\ sent[i].Timestamp = 0 /\ sent[i].Attrs = NoAttrs
  /\ (workerExit = "err" /\ workerPc \in {"deferMsgs", "deferLogs", "done"})
       => ErrIndexes = {Len(sent)}
  /\ workerPc \in {"sendErr", "deferMsgs"} => closeCount = 0
  /\ (workerExit = "err" /\ workerPc \in {"deferLogs", "done"}) => closeCount = 1

\* C3's case: the worker sent a record, received the failure, sent the error
\* message and exited.
C3_Witness ==
  /\ workerPc = "done"
  /\ workerExit = "err"
  /\ Len(sent) = 2
  /\ sent[2].Err = "readfail"
  /\ closeCount = 1

\* The lane write the writer makes for a message of a requested stream.
WriteOf(m) == IF m.Err # NoErr THEN LaneWrite("systemerr", m) ELSE LaneWrite(m.Source, m)

\* With mux, the tags of the frames on the sink, in order.
MuxTags == [i \in 1..Len(sink) |-> Wire(TRUE, sink[i].Stream, <<>>).Tag]

\* A finished session without cancellation whose source yielded one record of
\* a requested stream and then reported a failure.
C4_Session ==
  /\ ~ctxDone
  /\ Len(produced) = 1
  /\ Requested(produced[1].Source)
  /\ srcErrored
  /\ workerPc = "done"
  /\ writerPc = "done"

\* C4 (as claimed): in such a session the sink holds exactly one data frame
\* for the record followed by exactly one system-error frame, and the channel
\* has been closed exactly once.
C4_OneDataFrameThenOneErrorFrame ==
  C4_Session =>
    /\ MuxTags = <<produced[1].Source, "systemerr">>
    /\ sink[1].Msg = produced[1]
    /\ sink[2].Msg.Err = "readfail"
    /\ closeCount = 1

\* C4 (amended): in such a session the sink holds at most one data frame for
\* the record and then at most one system-error frame, one frame for each
\* message the worker sent; the error frame is missing only if the source has
\* also closed its data channel; the channel has been closed exactly once.
C4_AtMostOneDataFrameThenErrorFrame ==
  C4_Session =>
    /\ sent \in {<<>>, <<produced[1]>>, <<ErrMessage("readfail")>>,
                 <<produced[1], ErrMessage("readfail")>>}
    /\ sink = [i \in 1..Len(sent) |-> WriteOf(sent[i])]
    /\ \A i \in 1..Len(sink) :
         MuxTags[i] = IF sent[i].Err # NoErr THEN "systemerr" ELSE produced[1].Source
    /\ ~logsMsgClosed => (sent # <<>> /\ sent[Len(sent)].Err = "readfail")
    /\ closeCount = 1

\* C4's case: the session ended with the data frame and the error frame.
C4_Witness ==
  /\ C4_Session
  /\ Len(sink) = 2
  /\ sink[2].Stream = "systemerr"

\* C5: with both streams requested and neither cancellation nor failure, the
\* writes on the sink are the records the source yielded, in order, one per
\* record, each on the lane (with mux: under the tag) of its stream; when the
\* writer has returned, all of them.
C5_FramesAreTheRecordsInOrder ==
  (config.ShowStdout /\ config.ShowStderr /\ ~ctxDone /\ ~srcErrored) =>
    /\ Len(sink) <= Len(produced)
    /\ \A i \in 1..Len(sink) :
         /\ sink[i].Msg = produced[i]
         /\ sink[i].Stream = produced[i].Source
         /\ MuxTags[i] = produced[i].Source
    /\ writerPc = "done" => Len(sink) = Len(produced)

\* C5's case: two records of different streams went through to the sink.
C5_Witness ==
  /\ config.ShowStdout /\ config.ShowStderr /\ ~ctxDone /\ ~srcErrored
  /\ writerPc = "done"
  /\ Len(sink) = 2
  /\ sink[1].Stream # sink[2].Stream

\* C6 (as claimed): once the context is cancelled, no step sends a message on
\* config.Messages or writes to the sink.
C6_NothingSentOrWrittenAfterCancel ==
  [][ctxDone => (sent' = sent /\ sink' = sink)]_vars

\* C6 (amended): once the worker has taken a cancellation case of one of its
\* selects it sends nothing more, and once the writer has taken its
\* cancellation case it writes nothing more.
C6_NothingAfterCancellationObserved ==
  [][/\ workerExit \in {"ctx", "ctxSend"} => sent' = sent
     /\ writerExit = "ctx" => sink' = sink]_vars

\* C6's case: worker and writer stopped on the cancellation while a record was
\* waiting in logs.Msg and a message was queued in config.Messages.
C6_Witness ==
  /\ ctxDone
  /\ workerExit = "ctx" /\ workerPc = "done"
  /\ writerExit = "ctx"
  /\ logsMsg # <<>>
  /\ messages # <<>>

\* C7: logs.Close() is called once, at the worker's exit, whatever ended the
\* loop, and never before; the worker receives nothing from logs.Msg after it
\* received from logs.Err.
C7_IteratorClosedOnceAtExit ==
  /\ logsCloses <= 1
  /\ workerPc = "done" => logsCloses = 1
  /\ workerPc # "done" => logsCloses = 0
  /\ ~recvAfterErr

\* C7's case: the worker exited through the error case with a record still
\* waiting in logs.Msg.
C7_Witness ==
  /\ workerPc = "done"
  /\ workerExit = "err"
  /\ logsMsg # <<>>
  /\ logsCloses = 1

\* C8 (as claimed): at its exit the pump has closed the acquired logger once if
\* it was opened for this read and not at all if it was the container's cached
\* logger when acquired, and no logger has been closed twice.
C8_PumpClosesOnlyItsOwnLogger ==
  workerPc = "done" =>
    /\ pumpCloses = IF cachedAtAcquire THEN 0 ELSE 1
    /\ \A l \in LoggerIds : loggerCloses[l] <= 1

\* C9: when ContainerLogs has returned an error, no worker was started,
\* nothing was sent on config.Messages and the channel is closed, empty.
C9_ErrorReturnClosesWithoutData ==
  (callPc = "returned" /\ rerr # NoErr) =>
    /\ workerPc = "none"
    /\ sent = <<>>
    /\ messages = <<>>
    /\ closeCount = 1

\* C9's case: the since timestamp did not parse, and a reader of the channel
\* found it closed.
C9_Witness ==
  /\ callPc = "returned"
  /\ rerr = "BadSince"
  /\ closeCount = 1
  /\ writerExit = "closed"

\* C10 (as claimed): a synchronous error return leaves config.Messages as it
\* was: nothing sent, not closed.
C10_ErrorReturnLeavesChannelUntouched ==
  (callPc = "returned" /\ rerr # NoErr) => (sent = <<>> /\ closeCount = 0)

\* C10 (amended): the step that returns an error sends nothing on
\* config.Messages and changes nothing of its content, but closes it.
C10_ErrorReturnOnlyClosesChannel ==
  [][(callPc = "init" /\ callPc' = "returned" /\ rerr' # NoErr) =>
       /\ sent' = sent
       /\ messages' = messages
       /\ closeCount' = closeCount + 1
       /\ workerPc' = "none"]_vars

\* C10's case: no stream was requested; the channel is closed and empty.
C10_Witness ==
  /\ callPc = "returned"
  /\ rerr = "NoStream"
  /\ closeCount = 1
  /\ sent = <<>>

\* C11 (as claimed): called with config.Messages == nil, ContainerLogs returns
\* the error to its caller: the call neither blocks nor panics, and no worker
\* is started.
C11_NilChannelReturnsError ==
  (config.MessagesNil /\ callPc # "init") =>
    /\ callPc = "returned"
    /\ rerr = "NilChannel"
    /\ ~panicked
    /\ workerPc = "none"

\* The normal messages sent on config.Messages, in order.
NormalSent == SelectSeq(sent, LAMBDA m : m.Err = NoErr)

\* The record the worker holds between its receive and its send.
InHand == IF workerPc = "send" THEN <<workerMsg>> ELSE <<>>

\* C12 (as claimed): every normal message the pump sends on config.Messages
\* belongs to a requested stream; the pump drops the others before the send.
C12_PumpSendsOnlyRequestedStreams ==
  \A i \in 1..Len(sent) : sent[i].Err = NoErr => Requested(sent[i].Source)

\* C12 (amended): the pump forwards every record it receives, whatever its
\* stream: the records yielded are, in order, those sent, the one in the
\* worker's hand and those waiting in logs.Msg, but for the one record a
\* cancelled send gives up.  The writer is the one that drops a message of a
\* stream not requested: it writes nothing for it.
C12_PumpForwardsEveryStream ==
  /\ IF workerExit = "ctxSend"
     THEN \E n \in 0..(Len(produced) - 1) :
            /\ NormalSent = SubSeq(produced, 1, n)
            /\ logsMsg = SubSeq(produced, n + 2, Len(produced))
     ELSE produced = NormalSent \o InHand \o logsMsg
  /\ \A i \in 1..Len(sink) :
       sink[i].Msg.Err = NoErr =>
         /\ Requested(sink[i].Msg.Source)
         /\ \E j \in 1..Len(sent) : sent[j] = sink[i].Msg
  /\ (writerPc = "done" /\ writerExit = "closed") =>
       Len(sink) = Cardinality({j \in 1..Len(sent) :
                                  sent[j].Err = NoErr /\ Requested(sent[j].Source)})

\* C12's case: only stdout was requested, the pump sent a stderr record, and
\* the writer received it and wrote nothing.
C12_Witness ==
  /\ config.ShowStdout /\ ~config.ShowStderr
  /\ Len(sent) = 1
  /\ sent[1].Source = "stderr"
  /\ writerRecvs = 1
  /\ sink = <<>>

\* C13 (as claimed): for every attribute mapping, ParseLogDetails applied to
\* the token stringAttrs made of it succeeds and returns the mapping.
C13_DecodeOfEncodeIsTheMapping ==
  (pureOp = "encode" /\ purePc = "decoded") =>
    /\ detailsMap.err = NoErr
    /\ ~detailsMap.isNil
    /\ detailsMap.m = attrs

\* The keys of a mapping in ascending byte order.
KeysAscending(a) ==
  CHOOSE ks \in [1..Cardinality(DOMAIN a) -> DOMAIN a] :
    \A i, j \in 1..Cardinality(DOMAIN a) : i < j => StrLess(ks[i], ks[j])

\* The token whose pairs are in ascending order of their raw keys.
TokenInKeyOrder(a) ==
  Join([i \in 1..Cardinality(DOMAIN a) |->
          KeysAscending(a)[i] \o <<"=">> \o a[KeysAscending(a)[i]]])

\* C14 (as claimed): the pairs of the token stringAttrs returns are in
\* ascending order of their raw keys, for every mapping and every order of
\* iteration of it, so that a mapping has one token only.
C14_PairsInAscendingKeyOrder ==
  (pureOp = "encode" /\ purePc # "input") =>
    /\ detailsString = TokenInKeyOrder(attrs)
    /\ Cardinality(stringAttrs(attrs)) = 1

\* A segment holds a "=".
HasEquals(seg) == \E i \in 1..Len(seg) : seg[i] = "="

\* The place of the first "=" of a segment that holds one.
FirstEquals(seg) == CHOOSE i \in 1..Len(seg) : seg[i] = "=" /\ \A h \in 1..(i - 1) : seg[h] # "="

KeyPart(seg) == SubSeq(seg, 1, FirstEquals(seg) - 1)
ValuePart(seg) == SubSeq(seg, FirstEquals(seg) + 1, Len(seg))

\* C15: ParseLogDetails returns an error and a nil map whenever a segment of
\* its input holds no "="; when it succeeds, every segment was cut at its first
\* "=" only: the keys are the unescaped parts before it (so an escaped "=" is
\* part of the key), and the value of a key is the unescaped part after it in
\* the last segment with that key.
C15_SegmentsCutAtFirstEqualsLastWins ==
  purePc = "decoded" =>
    LET segs == Split(detailsString)
        KeyOf(i) == QueryUnescape(KeyPart(segs[i])).s
    IN /\ (\E i \in 1..Len(segs) : ~HasEquals(segs[i])) =>
            (detailsMap.err # NoErr /\ detailsMap.isNil)
       /\ detailsMap.err # NoErr => (detailsMap.isNil /\ detailsMap.m = NoAttrs)
       /\ detailsMap.err = NoErr =>
            /\ ~detailsMap.isNil
            /\ \A i \in 1..Len(segs) : HasEquals(segs[i])
            /\ DOMAIN detailsMap.m = {KeyOf(i) : i \in 1..Len(segs)}
            /\ \A i \in 1..Len(segs) :
                 (\A j \in (i + 1)..Len(segs) : KeyOf(j) # KeyOf(i)) =>
                   detailsMap.m[KeyOf(i)] = QueryUnescape(ValuePart(segs[i])).s
       /\ detailsString = <<"a", "=", "1", ",", "b">> =>
            detailsMap.err = "invalid details format"
       /\ detailsString = <<"a", "%", "3", "D", "b", "=", "1">> =>
            (detailsMap.err = NoErr
               /\ detailsMap.m = [k \in {<<"a", "=", "b">>} |-> <<"1">>])

\* C15's case: "k%3Dk=v,k%3Dk=k", two segments with the key "k=k" written
\* with an escaped "="; the value of the second segment is the one kept.
C15_Witness ==
  /\ pureOp = "decode" /\ purePc = "decoded"
  /\ detailsString = Join(<<<<"k", "%", "3", "D", "k", "=", "v">>,
                            <<"k", "%", "3", "D", "k", "=", "k">>>>)
  /\ detailsMap.err = NoErr
  /\ detailsMap.m = [k \in {<<"k", "=", "k">>} |-> <<"k">>]

\* C16 (as claimed): the tail handed to the log source in the read
\* configuration is a count of records (a non-negative integer) or the "all"
\* sentinel -1, whatever the tail string of the request; no tail string makes
\* ContainerLogs return an error.
C16_TailIsACountOrAll ==
  /\ callPc = "reading" => (readConfig.Tail >= 0 \/ readConfig.Tail = -1)
  /\ rerr \in {NoErr, "NilChannel", "NoStream", "NotFound", "DeadOrRemoval",
               "ErrReadLogsNotSupported", "StartLoggerErr", "BadSince"}

\* The swarm availability and the docker availability of the same name.
SameName ==
  {<<SwarmActive, VolumeAvailabilityActive>>, <<SwarmPause, VolumeAvailabilityPause>>,
   <<SwarmDrain, VolumeAvailabilityDrain>>}

\* C17: volumeAvailabilityFromGRPC maps each of the swarm values Active, Pause
\* and Drain to the docker value of the same name, and a docker availability
\* among the three that VolumeSpecToGRPC converts to swarm comes back unchanged
\* through volumeAvailabilityFromGRPC.
C17_AvailabilityKeepsItsName ==
  /\ (pureOp = "fromGRPC" /\ purePc = "back") =>
       \A p \in SameName : swarmAvailability = p[1] => dockerAvailability = p[2]
  /\ (pureOp = "toGRPC" /\ purePc \in {"converted", "back"}) =>
       \A p \in SameName : availability = p[2] => swarmAvailability = p[1]
  /\ (pureOp = "toGRPC" /\ purePc = "back"
        /\ availability \in {VolumeAvailabilityActive, VolumeAvailabilityPause,
                             VolumeAvailabilityDrain}) =>
       dockerAvailability = availability

\* C17's case: the pause availability went to swarm and back.
C17_Witness ==
  /\ pureOp = "toGRPC" /\ purePc = "back"
  /\ availability = VolumeAvailabilityPause
  /\ swarmAvailability = SwarmPause
  /\ dockerAvailability = VolumeAvailabilityPause

\* C18 (as claimed): the worker closes the live iterator, and the log source
\* if it was opened for this read, before it closes config.Messages: whenever
\* the channel is closed by the worker, logs.Close() has been called.
C18_IteratorClosedBeforeChannel ==
  (workerPc # "none" /\ closeCount >= 1) =>
    /\ logsCloses = 1
    /\ ~cachedAtAcquire => pumpCloses = 1

\* C19 (as claimed): no exit path of ContainerLogs leaves open a logger that
\* getLogger opened for this read: when ContainerLogs has returned an error
\* after acquiring one (the logger cannot be read, or config.Since does not
\* parse), and when the worker has finished, that logger has been closed.
C19_NoAdHocLoggerLeftOpen ==
  (callPc = "returned" /\ cLog # NilLogger /\ ~cachedAtAcquire
     /\ workerPc \in {"none", "done"}) =>
    loggerCloses[cLog] >= 1

\* The writes made on the system-error lane.
SysErrWrites == {i \in 1..Len(sink) : sink[i].Stream = "systemerr"}

\* C20: a writer that received a message carrying an error has written one
\* error line for it on the system-error lane, as its last write, and has
\* returned: it can take no further step, so it receives and writes nothing
\* more, whatever is queued.  A writer that has not received such a message
\* (it runs, or it returned on the closed channel or on the cancellation) has
\* written nothing on the system-error lane.
C20_ErrorLineOnceThenReturn ==
  /\ writerExit = "err" =>
       /\ writerPc = "done"
       /\ ~ENABLED Writer
       /\ SysErrWrites = {Len(sink)}
       /\ sink[Len(sink)].Msg.Err = "readfail"
       /\ \A d, t \in BOOLEAN :
            WriteBytes(d, t, sink[Len(sink)]) = {ErrorLine("readfail")}
       /\ writerRecvs = Len(sent) - Len(messages)
  /\ writerExit # "err" => SysErrWrites = {}
  /\ writerPc = "done" => (writerExit # "none" /\ ~ENABLED Writer)

\* C20's case: the writer wrote a data frame, received the error message,
\* wrote the error line and returned, with the context cancelled meanwhile.
C20_Witness ==
  /\ writerExit = "err"
  /\ writerRecvs = 2
  /\ Len(sink) = 2
  /\ sink[1].Stream = "stderr"
  /\ SysErrWrites = {2}
  /\ ctxDone

\* C21: the read configuration handed to ReadLogs has Follow set exactly when
\* config.Follow is set and the container is running during the call; and a
\* session on a container that was not running, once its source has closed
\* logs.Msg, has config.Messages closed in the end unless the context is
\* cancelled first: it does not wait for a cancellation.
C21_FollowOnlyWhileRunning ==
  /\ [](callPc = "reading" => (readConfig.Follow <=> (configFollow /\ running)))
  /\ (workerPc # "none" /\ ~cachedAtAcquire /\ logsMsgClosed)
       ~> (closeCount = 1 \/ ctxDone)

\* C21's case: follow was requested on a container that is not running, and
\* ReadLogs is called without it.
C21_Witness ==
  /\ callPc = "reading"
  /\ ~running
  /\ configFollow
  /\ ~readConfig.Follow

\* C22: the writer flushes the sink once, before it receives anything from
\* config.Messages; while it loops the sink is open; on each of its three
\* exits (channel closed, error message, cancellation) the sink has been closed
\* once; and the sink is closed only by a writer that has returned, which
\* writes nothing more.
C22_FlushFirstCloseOnceLast ==
  /\ writerPc = "none" =>
       (flushes = 0 /\ sinkCloses = 0 /\ writerRecvs = 0 /\ sink = <<>>)
  /\ writerPc = "loop" => (flushes = 1 /\ sinkCloses = 0 /\ writerExit = "none")
  /\ writerPc = "done" =>
       (flushes = 1 /\ sinkCloses = 1 /\ writerExit \in {"closed", "err", "ctx"})
  /\ writerRecvs > 0 => flushes = 1
  /\ sinkCloses > 0 =>
       /\ writerPc = "done"
       /\ ~ENABLED (Writer /\ sink' # sink)
       /\ ~ENABLED (Writer /\ sinkCloses' # sinkCloses)

\* C22's case: the writer wrote a frame and then returned on the cancellation
\* with a message still queued; the sink is closed.
C22_Witness ==
  /\ writerExit = "ctx"
  /\ flushes = 1
  /\ sinkCloses = 1
  /\ sink # <<>>
  /\ messages # <<>>

\* The timestamp prefix and the details prefix of a message.
TimestampPrefix(timestamps, msg) ==
  IF timestamps THEN TimeFormat(msg.Timestamp) \o <<" ">> ELSE <<>>
DetailsPrefix(details, token) == IF details THEN token \o <<" ">> ELSE <<>>

\* C23: whatever config.Details and config.Timestamps are, the bytes of every
\* write of a normal message are the timestamp and a space (with timestamps),
\* then the attribute token and a space (with details), then the payload, which
\* is the Line of the record as the source yielded it; with mux the frame
\* carries these bytes and their length.
C23_TimestampThenDetailsThenPayload ==
  \A i \in 1..Len(sink) :
    sink[i].Msg.Err = NoErr =>
      /\ \E j \in 1..Len(produced) :
           produced[j] = sink[i].Msg /\ sink[i].Msg.Line = <<"l", DigitChr(j)>>
      /\ \A d, t \in BOOLEAN :
           /\ WriteBytes(d, t, sink[i]) =
                {TimestampPrefix(t, sink[i].Msg) \o DetailsPrefix(d, token) \o sink[i].Msg.Line :
                   token \in stringAttrs(sink[i].Msg.Attrs)}
           /\ \A p \in WriteBytes(d, t, sink[i]) :
                /\ Wire(TRUE, sink[i].Stream, p).Data = p
                /\ Wire(TRUE, sink[i].Stream, p).Size = Len(p)
                /\ Wire(FALSE, sink[i].Stream, p).Data = p

\* C23's case: the second record, which has the attribute k=v, was written;
\* with details and timestamps its bytes are "T2 k=v l2".
C23_Witness ==
  /\ Len(sink) = 2
  /\ sink[2].Msg.Attrs # NoAttrs
  /\ WriteBytes(TRUE, TRUE, sink[2]) =
       {<<"T", "2", " ", "k", "=", "v", " ", "l", "2">>}

\* C24: every write on the stdout lane is of a normal message from stdout,
\* made with ShowStdout set, and every write on the stderr lane is of a normal
\* message from stderr, made with ShowStderr set (with mux the frames carry
\* the tags of these lanes); a message is written at most once, so on one lane
\* at most, and the writer makes at most one write for each message it has
\* received.
C24_OneLaneOfTheSourceIfRequested ==
  /\ \A i \in 1..Len(sink) :
       /\ sink[i].Stream = "stdout" =>
            (config.ShowStdout /\ sink[i].Msg.Source = "stdout" /\ sink[i].Msg.Err = NoErr)
       /\ sink[i].Stream = "stderr" =>
            (config.ShowStderr /\ sink[i].Msg.Source = "stderr" /\ sink[i].Msg.Err = NoErr)
       /\ sink[i].Msg.Err = NoErr =>
            (sink[i].Stream = sink[i].Msg.Source /\ MuxTags[i] = sink[i].Msg.Source)
  /\ \A i, j \in 1..Len(sink) : sink[i].Msg = sink[j].Msg => i = j
  /\ Len(sink) <= writerRecvs

\* C24's case: only stdout was requested; the writer received a stderr message
\* and then a stdout message and wrote the second one only, on the stdout lane.
C24_Witness ==
  /\ config.ShowStdout /\ ~config.ShowStderr
  /\ writerRecvs = 2
  /\ sent[1].Source = "stderr"
  /\ sent[2].Source = "stdout"
  /\ Len(sink) = 1
  /\ sink[1].Stream = "stdout"
  /\ sink[1].Msg = sent[2]

====
